---- MODULE Spec2Model ----
(***************************************************************************)
(* Model of src/main.py, the Streamlit dashboard script of                 *)
(* polar-plant-dashboard.  One execution of the script (a "run") is one    *)
(* action: Streamlit executes the file top to bottom on the first page     *)
(* load and again on every widget interaction.  The inputs are the data    *)
(* directory (its listing order, its file names in NFC or NFD form, the    *)
(* CSV tables and the workbook sheets).                                    *)
(*                                                                         *)
(* Conventions                                                             *)
(*   - A string is a sequence of code points.  A code point is a triple    *)
(*     <<kind, i, j>>: a leading jamo <<"L", i, 0>>, a vowel jamo          *)
(*     <<"V", 0, j>>, the precomposed syllable <<"LV", i, j>> and an ASCII *)
(*     character <<"A", n, 0>>.  NFC composes L_i V_j into LV_ij, NFD      *)
(*     decomposes it, as Unicode does for Hangul.                          *)
(*   - A file name is [stem, suffix] (pathlib's split); the suffix is      *)
(*     ASCII, which normalization leaves alone.                            *)
(*   - A cell is <<v>> (a value) or <<>> (missing, pandas' NaN).           *)
(*   - A mean is [num, den]: the sum and the count of the present cells;   *)
(*     den = 0 is NaN (mean of nothing).                                   *)
(*   - None is <<>>, a present object x is <<x>>.                          *)
(*   - Column names are transliterated: "fresh_weight" is the source's     *)
(*     fresh weight (g) column, "leaf_count" the leaf count column,        *)
(*     "shoot_length" the shoot length (mm) column, "school" the label     *)
(*     column of line 267.                                                 *)
(***************************************************************************)
EXTENDS Integers, Sequences, FiniteSets, TLC

VARIABLES
    data_dir,        \* the directory DATA_DIR: files in iterdir() order
    target,          \* the name handed to find_file_by_normalized_name
    cache_env,       \* st.cache_data of load_environment_data: <<>> or <<mapping>>
    cache_growth,    \* st.cache_data of load_growth_data, keyed by path
    selected_school, \* the sidebar selectbox
    status,          \* "init" | "halted" | "crashed" | "done" | "resolved"
    err,             \* <<>> or <<[type, line]>>: the uncaught exception
    trace,           \* the steps the last run executed, in order
    env_data,        \* <<>> or <<mapping>>: school -> table, insertion order
    growth_file,     \* <<>> (None) or <<file>>
    growth_data,     \* <<>> or <<mapping>>: sheet -> table, insertion order
    tab1,            \* <<>> or <<[ec_df, total_plants, avg_temp, avg_hum, ...]>>
    avg_df,          \* <<>> or <<rows>> (tab2 summary)
    sum_df,          \* <<>> or <<rows>> (tab3 summary)
    best_row,        \* <<>> or <<row of sum_df>>
    all_growth       \* <<>> or <<table>> (merged growth table)

vars == <<data_dir, target, cache_env, cache_growth, selected_school,
          status, err, trace, env_data, growth_file, growth_data, tab1,
          avg_df, sum_df, best_row, all_growth>>

----------------------------------------------------------------------------
(* Bounds of the model *)

MaxDir == 3
MaxSheets == 2
MaxRows == 1

----------------------------------------------------------------------------
(* Strings and Unicode normalization *)

L(i) == <<"L", i, 0>>
V(j) == <<"V", 0, j>>
LV(i, j) == <<"LV", i, j>>
A(n) == <<"A", n, 0>>

RECURSIVE Decompose(_)
\* NFD: every precomposed syllable becomes its leading jamo and its vowel.
Decompose(s) ==
    IF s = <<>> THEN <<>>
    ELSE LET c == Head(s) IN
         (IF c[1] = "LV" THEN <<L(c[2]), V(c[3])>> ELSE <<c>>)
             \o Decompose(Tail(s))

RECURSIVE Compose(_)
\* Canonical composition: a leading jamo directly followed by a vowel
\* becomes the precomposed syllable.
Compose(s) ==
    IF s = <<>> THEN <<>>
    ELSE IF Len(s) >= 2 /\ s[1][1] = "L" /\ s[2][1] = "V"
         THEN <<LV(s[1][2], s[2][3])>> \o Compose(SubSeq(s, 3, Len(s)))
         ELSE <<Head(s)>> \o Compose(Tail(s))

NFC(s) == Compose(Decompose(s))

\* The name as it is on disk, not normalized.
normalize_name_raw(name) == name

\* unicodedata.normalize("NFC", name), on a file name [stem, suffix].
normalize_name(name) ==
    [stem |-> NFC(name.stem), suffix |-> name.suffix]

\* Unicode canonical equivalence: equal canonical decompositions.
CanonEquiv(a, b) ==
    Decompose(a.stem) = Decompose(b.stem) /\ a.suffix = b.suffix

FileName(f) == [stem |-> f.stem, suffix |-> f.suffix]

RECURSIVE find_from(_, _, _)
find_from(directory, target_nfc, i) ==
    IF i > Len(directory) THEN <<>>
    ELSE IF normalize_name(FileName(directory[i])) = target_nfc
         THEN <<directory[i]>>
         ELSE find_from(directory, target_nfc, i + 1)

\* A lookup by code-point-exact name, without normalization.
RECURSIVE find_exact_from(_, _, _)
find_exact_from(directory, name, i) ==
    IF i > Len(directory) THEN <<>>
    ELSE IF FileName(directory[i]) = name
         THEN <<directory[i]>>
         ELSE find_exact_from(directory, name, i + 1)

find_file_exact(directory, target_name) ==
    find_exact_from(directory, target_name, 1)

\* The first entry, in iterdir() order, whose NFC name equals the NFC target.
find_file_by_normalized_name(directory, target_name) ==
    find_from(directory, normalize_name(target_name), 1)

----------------------------------------------------------------------------
(* Static configuration (lines 66-95) *)

SONGDO == <<LV(1, 1)>>
HANEUL == <<LV(2, 1)>>
ARA == <<LV(1, 2)>>
DONGSAN == <<LV(2, 2)>>

\* EC_INFO in declaration order (a dict keeps insertion order).
EC_INFO ==
    << [key |-> SONGDO, val |-> 1], [key |-> HANEUL, val |-> 2],
       [key |-> ARA, val |-> 4], [key |-> DONGSAN, val |-> 8] >>

ALL_SCHOOLS == [i \in 1..Len(EC_INFO) |-> EC_INFO[i].key]

\* The first selectbox option, "all schools".
ALL_OPTION == <<LV(4, 1)>>

SelectOptions == {ALL_OPTION} \cup {ALL_SCHOOLS[i] : i \in 1..Len(ALL_SCHOOLS)}

\* The literal "_<environment data>" that line 51 strips from the stem.
ENV_SUFFIX == <<A(95), LV(3, 1)>>

\* The literal workbook name of line 70.
GROWTH_XLSX == [stem |-> <<A(52), LV(3, 2)>>, suffix |-> ".xlsx"]

----------------------------------------------------------------------------
(* Python and pandas helpers *)

Range(s) == {s[i] : i \in 1..Len(s)}

\* str.lower() on the suffixes the model uses.
Lower(suffix) == IF suffix = ".CSV" THEN ".csv" ELSE suffix

RECURSIVE Replace(_, _)
\* str.replace(old, ""): every occurrence of old, left to right, removed.
Replace(s, old) ==
    IF Len(s) < Len(old) THEN s
    ELSE IF SubSeq(s, 1, Len(old)) = old
         THEN Replace(SubSeq(s, Len(old) + 1, Len(s)), old)
         ELSE <<Head(s)>> \o Replace(Tail(s), old)

\* A dict as the sequence of its items in insertion order.
HasKey(d, k) == \E i \in 1..Len(d) : d[i].key = k
KeyIndex(d, k) == CHOOSE i \in 1..Len(d) : d[i].key = k

\* d[k] = v: an existing key keeps its position, a new key goes last.
DictSet(d, k, v) ==
    IF HasKey(d, k)
    THEN [d EXCEPT ![KeyIndex(d, k)] = [key |-> k, val |-> v]]
    ELSE Append(d, [key |-> k, val |-> v])

\* d.get(k): <<>> is None.
DictGet(d, k) == IF HasKey(d, k) THEN <<d[KeyIndex(d, k)].val>> ELSE <<>>

EmptyTable == [columns |-> {}, rows |-> <<>>]

\* df[col] as the sequence of the column's cells (col must be in df).
Column(df, col) == [i \in 1..Len(df.rows) |-> df.rows[i][col]]

RECURSIVE SumCells(_)
SumCells(cells) ==
    IF cells = <<>> THEN 0
    ELSE (IF Head(cells) = <<>> THEN 0 ELSE Head(cells)[1])
             + SumCells(Tail(cells))

RECURSIVE CountCells(_)
CountCells(cells) ==
    IF cells = <<>> THEN 0
    ELSE (IF Head(cells) = <<>> THEN 0 ELSE 1) + CountCells(Tail(cells))

\* Series.mean(): missing cells are skipped; the mean of nothing is NaN.
Mean(cells) == [num |-> SumCells(cells), den |-> CountCells(cells)]

IsNaN(m) == m.den = 0

\* a > b on two means that are not NaN.
Greater(a, b) == a.num * b.den > b.num * a.den

RECURSIVE Flatten(_)
Flatten(ss) == IF ss = <<>> THEN <<>> ELSE Head(ss) \o Flatten(Tail(ss))

\* An assign that keeps a column the table already has.
assign_keep(df, col, value) ==
    LET cols == df.columns \cup {col} IN
    [self |-> df,
     result |-> [columns |-> cols,
                 rows |-> [i \in 1..Len(df.rows) |->
                     [c \in cols |-> IF c \in df.columns THEN df.rows[i][c]
                                     ELSE <<value>>]]]]

\* An assignment into the receiver itself (df[col] = value).
assign_inplace(df, col, value) ==
    LET cols == df.columns \cup {col}
        out == [columns |-> cols,
                rows |-> [i \in 1..Len(df.rows) |->
                    [c \in cols |-> IF c = col THEN <<value>>
                                    ELSE df.rows[i][c]]]]
    IN [self |-> out, result |-> out]

\* DataFrame.assign(col=value): a new table with the column set on every
\* row (an existing column of that name is overwritten); self is the
\* receiver after the call, which assign leaves as it was.
assign(df, col, value) ==
    LET cols == df.columns \cup {col} IN
    [self |-> df,
     result |-> [columns |-> cols,
                 rows |-> [i \in 1..Len(df.rows) |->
                     [c \in cols |-> IF c = col THEN <<value>>
                                     ELSE df.rows[i][c]]]]]

\* pd.concat(tables): the rows of all tables in order, over the union of
\* the columns; a cell of a column the source table lacks is missing.
concat(tables) ==
    LET cols == UNION {tables[i].columns : i \in 1..Len(tables)}
        widen(df) == [i \in 1..Len(df.rows) |->
                         [c \in cols |-> IF c \in df.columns
                                         THEN df.rows[i][c] ELSE <<>>]]
    IN [columns |-> cols,
        rows |-> Flatten([i \in 1..Len(tables) |-> widen(tables[i])])]

----------------------------------------------------------------------------
(* Data loading (lines 46-61) *)

RECURSIVE load_env_from(_, _, _)
load_env_from(dir, i, data) ==
    IF i > Len(dir) THEN data
    ELSE LET file == dir[i] IN
         IF Lower(file.suffix) = ".csv"
         THEN load_env_from(dir, i + 1,
                  DictSet(data, Replace(file.stem, ENV_SUFFIX), file.table))
         ELSE load_env_from(dir, i + 1, data)

\* Every *.csv of the directory, keyed by its stem with the suffix literal
\* removed; the stem is used as it is on disk (no normalization).
load_environment_data(dir) == load_env_from(dir, 1, <<>>)

RECURSIVE load_growth_from(_, _, _)
load_growth_from(sheets, i, data) ==
    IF i > Len(sheets) THEN data
    ELSE load_growth_from(sheets, i + 1,
             DictSet(data, sheets[i].name, sheets[i].table))

\* Every sheet of the workbook, keyed by the sheet name, in sheet order.
load_growth_data(xlsx) == load_growth_from(xlsx.sheets, 1, <<>>)

----------------------------------------------------------------------------
(* TAB 1 (lines 119-155) *)

Error(type, line) == <<[type |-> type, line |-> line]>>

\* The items of a mapping whose table has the column.
RECURSIVE ItemsWith(_, _)
ItemsWith(d, col) ==
    IF d = <<>> THEN <<>>
    ELSE (IF col \in Head(d).val.columns THEN <<Head(d)>> ELSE <<>>)
             \o ItemsWith(Tail(d), col)

\* pd.concat([df[col] for df in d.values() if col in df]).mean();
\* pd.concat of an empty list raises ValueError.
overall_mean(d, col, line) ==
    LET with == ItemsWith(d, col) IN
    IF with = <<>>
    THEN [err |-> Error("ValueError", line), mean |-> <<>>]
    ELSE [err |-> <<>>,
          mean |-> <<Mean(Flatten([i \in 1..Len(with) |->
                                      Column(with[i].val, col)]))>>]

\* f"{x:.1f}": "nan" for NaN, else the value rounded to one decimal
\* (half to even, on the exact quotient).
Format1f(m) ==
    IF IsNaN(m) THEN [nan |-> TRUE, tenths |-> 0]
    ELSE LET q == (10 * m.num) \div m.den
             r == (10 * m.num) % m.den
         IN [nan |-> FALSE,
             tenths |-> IF 2 * r > m.den THEN q + 1
                        ELSE IF 2 * r = m.den THEN q + (q % 2)
                        ELSE q]

RECURSIVE TotalRows(_)
TotalRows(d) ==
    IF d = <<>> THEN 0 ELSE Len(Head(d).val.rows) + TotalRows(Tail(d))

Tab1(env, growth) ==
    LET ec_df == [i \in 1..Len(EC_INFO) |->
                    [school |-> EC_INFO[i].key,
                     ec |-> EC_INFO[i].val,
                     count |-> IF HasKey(growth, EC_INFO[i].key)
                               THEN Len(DictGet(growth, EC_INFO[i].key)[1].rows)
                               ELSE 0]]
        temp == overall_mean(env, "temperature", 141)
        hum == overall_mean(env, "humidity", 145)
    IN  IF temp.err # <<>> THEN [err |-> temp.err, out |-> <<>>]
        ELSE IF hum.err # <<>> THEN [err |-> hum.err, out |-> <<>>]
        ELSE [err |-> <<>>,
              out |-> <<[ec_df |-> ec_df,
                         total_plants |-> TotalRows(growth),
                         avg_temp |-> temp.mean[1],
                         avg_hum |-> hum.mean[1],
                         temp_text |-> Format1f(temp.mean[1]),
                         hum_text |-> Format1f(hum.mean[1])]>>]

----------------------------------------------------------------------------
(* TAB 2 (lines 160-226) *)

\* The columns lines 167-170 read, in the order they are read.
ENV_COLUMNS == <<"temperature", "humidity", "ph", "ec">>

\* The first column of cols, in order, that df lacks (0: none): df[col]
\* raises KeyError there.
FirstMissing(df, cols) ==
    IF \A k \in 1..Len(cols) : cols[k] \in df.columns THEN 0
    ELSE CHOOSE k \in 1..Len(cols) :
             /\ cols[k] \notin df.columns
             /\ \A j \in 1..(k - 1) : cols[j] \in df.columns

\* The first item of the mapping whose table lacks one of cols (0: none).
FirstBadItem(d, cols) ==
    IF \A i \in 1..Len(d) : FirstMissing(d[i].val, cols) = 0 THEN 0
    ELSE CHOOSE i \in 1..Len(d) :
             /\ FirstMissing(d[i].val, cols) # 0
             /\ \A j \in 1..(i - 1) : FirstMissing(d[j].val, cols) = 0

avg_rows(env) ==
    [i \in 1..Len(env) |->
        [school |-> env[i].key,
         temperature |-> Mean(Column(env[i].val, "temperature")),
         humidity |-> Mean(Column(env[i].val, "humidity")),
         ph |-> Mean(Column(env[i].val, "ph")),
         ec |-> Mean(Column(env[i].val, "ec")),
         target_ec |-> DictGet(EC_INFO, env[i].key)]]

Tab2(env, sel) ==
    LET bad == FirstBadItem(env, ENV_COLUMNS) IN
    IF bad # 0
    THEN [err |-> Error("KeyError",
                        166 + FirstMissing(env[bad].val, ENV_COLUMNS)),
          avg_df |-> <<>>, download |-> FALSE]
    ELSE IF env = <<>>
    THEN \* avg_df has no columns: avg_df[<school>] raises
         [err |-> Error("KeyError", 183), avg_df |-> <<>>, download |-> FALSE]
    ELSE IF /\ sel # ALL_OPTION
            /\ HasKey(env, sel)
            /\ "time" \notin DictGet(env, sel)[1].columns
    THEN [err |-> Error("KeyError", 199), avg_df |-> <<avg_rows(env)>>,
          download |-> FALSE]
    ELSE [err |-> <<>>, avg_df |-> <<avg_rows(env)>>, download |-> TRUE]

----------------------------------------------------------------------------
(* TAB 3 (lines 231-312) *)

\* The columns lines 239-241 read, in the order they are read.
GROWTH_COLUMNS == <<"fresh_weight", "leaf_count", "shoot_length">>

summary(growth) ==
    [i \in 1..Len(growth) |->
        [school |-> growth[i].key,
         EC |-> DictGet(EC_INFO, growth[i].key),
         mean_weight |-> Mean(Column(growth[i].val, "fresh_weight")),
         mean_leaves |-> Mean(Column(growth[i].val, "leaf_count")),
         mean_length |-> Mean(Column(growth[i].val, "shoot_length")),
         count |-> Len(growth[i].val.rows)]]

\* Series.idxmax(): the first position holding the maximum, NaN skipped;
\* 0 when every value is NaN.
idxmax(means) ==
    IF \A i \in 1..Len(means) : IsNaN(means[i]) THEN 0
    ELSE CHOOSE i \in 1..Len(means) :
             /\ ~IsNaN(means[i])
             /\ \A j \in 1..Len(means) :
                    ~IsNaN(means[j]) => ~Greater(means[j], means[i])
             /\ \A j \in 1..(i - 1) :
                    ~IsNaN(means[j]) => Greater(means[i], means[j])

\* What line 247 ends in when every mean is NaN depends on the installed
\* pandas: version 3 raises ValueError in idxmax; earlier versions return
\* NaN, and .loc[NaN] raises KeyError.
Raised(e) ==
    IF e # <<>> /\ e[1].type = "idxmax_all_na"
    THEN {Error("ValueError", e[1].line), Error("KeyError", e[1].line)}
    ELSE {e}

\* A selection that answers an empty summary with a zero-valued row.
best_row_or_default(sum) ==
    IF sum = <<>>
    THEN [err |-> <<>>,
          row |-> <<[school |-> <<>>, EC |-> <<>>,
                     mean_weight |-> [num |-> 0, den |-> 1],
                     mean_leaves |-> [num |-> 0, den |-> 1],
                     mean_length |-> [num |-> 0, den |-> 1],
                     count |-> 0]>>]
    ELSE LET best == idxmax([i \in 1..Len(sum) |-> sum[i].mean_weight]) IN
         IF best = 0
         THEN [err |-> Error("idxmax_all_na", 247), row |-> <<>>]
         ELSE [err |-> <<>>, row |-> <<sum[best]>>]

\* sum_df.loc[sum_df[<mean weight>].idxmax()] (line 247).  A frame built
\* from no rows has no columns, so the column lookup raises KeyError.
best_row_of(sum) ==
    IF sum = <<>>
    THEN [err |-> Error("KeyError", 247), row |-> <<>>]
    ELSE LET best == idxmax([i \in 1..Len(sum) |-> sum[i].mean_weight]) IN
         IF best = 0
         THEN [err |-> Error("idxmax_all_na", 247), row |-> <<>>]
         ELSE [err |-> <<>>, row |-> <<sum[best]>>]

stamped(growth) ==
    [i \in 1..Len(growth) |-> assign(growth[i].val, "school", growth[i].key)]

Tab3(growth) ==
    LET bad == FirstBadItem(growth, GROWTH_COLUMNS) IN
    IF bad # 0
    THEN [err |-> Error("KeyError",
                        238 + FirstMissing(growth[bad].val, GROWTH_COLUMNS)),
          sum_df |-> <<>>, best_row |-> <<>>, all_growth |-> <<>>,
          growth_after |-> growth]
    ELSE LET sum == summary(growth)
             best == best_row_of(sum)
         IN
    IF best.err # <<>>
    THEN [err |-> best.err,
          sum_df |-> <<sum>>, best_row |-> <<>>, all_growth |-> <<>>,
          growth_after |-> growth]
    ELSE IF growth = <<>>
    THEN \* pd.concat of an empty list raises (line 266)
         [err |-> Error("ValueError", 266),
          sum_df |-> <<sum>>, best_row |-> best.row, all_growth |-> <<>>,
          growth_after |-> growth]
    ELSE LET st == stamped(growth) IN
         [err |-> <<>>,
          sum_df |-> <<sum>>,
          best_row |-> best.row,
          all_growth |-> <<concat([i \in 1..Len(st) |-> st[i].result])>>,
          growth_after |-> [i \in 1..Len(growth) |->
                               [key |-> growth[i].key, val |-> st[i].self]]]

----------------------------------------------------------------------------
(* One run of the script (lines 66-312) *)

LoadSteps == <<"load_environment_data", "find_file">>

\* Everything a run leaves behind, given the selectbox value, the directory,
\* and the two st.cache_data caches.
RunScript(sel, dir, tgt, cenv, cgrowth) ==
    LET env == IF cenv = <<>> THEN load_environment_data(dir) ELSE cenv[1]
        gf == find_file_by_normalized_name(dir, tgt)
        blank == [cache_env |-> <<env>>, cache_growth |-> cgrowth,
                  status |-> "halted", err |-> <<>>,
                  trace |-> LoadSteps \o <<"st.error", "st.stop">>,
                  env_data |-> <<env>>, growth_file |-> gf,
                  growth_data |-> <<>>, tab1 |-> <<>>, avg_df |-> <<>>,
                  sum_df |-> <<>>, best_row |-> <<>>, all_growth |-> <<>>]
    IN  IF gf = <<>> THEN blank
        ELSE
        LET hit == cgrowth # <<>> /\ cgrowth[1].path = FileName(gf[1])
            growth == IF hit THEN cgrowth[1].data ELSE load_growth_data(gf[1])
            loaded == [blank EXCEPT
                         !.cache_growth = <<[path |-> FileName(gf[1]),
                                             data |-> growth]>>,
                         !.growth_data = <<growth>>,
                         !.trace = LoadSteps \o <<"load_growth_data", "sidebar",
                                                  "tab1">>]
            t1 == Tab1(env, growth)
            t2 == Tab2(env, sel)
            t3 == Tab3(growth)
        IN  IF t1.err # <<>>
            THEN [loaded EXCEPT !.status = "crashed", !.err = t1.err]
            ELSE
            LET after1 == [loaded EXCEPT !.tab1 = t1.out,
                                         !.avg_df = t2.avg_df,
                                         !.trace = loaded.trace \o <<"tab2">>]
            IN  IF t2.err # <<>>
                THEN [after1 EXCEPT !.status = "crashed", !.err = t2.err]
                ELSE
                LET after2 == [after1 EXCEPT
                                 !.trace = after1.trace
                                             \o <<"csv_download", "tab3">>,
                                 !.sum_df = t3.sum_df,
                                 !.best_row = t3.best_row,
                                 !.all_growth = t3.all_growth,
                                 !.growth_data = <<t3.growth_after>>]
                IN  IF t3.err # <<>>
                    THEN [after2 EXCEPT !.status = "crashed", !.err = t3.err]
                    ELSE [after2 EXCEPT
                            !.status = "done",
                            !.trace = after2.trace \o <<"xlsx_download">>]

\* The run's effect on the state.
Run(sel) ==
    \E r \in {RunScript(sel, data_dir, target, cache_env, cache_growth)} :
        \E e \in Raised(r.err) :
            /\ selected_school' = sel
            /\ cache_env' = r.cache_env
            /\ cache_growth' = r.cache_growth
            /\ status' = r.status
            /\ err' = e
            /\ trace' = r.trace
            /\ env_data' = r.env_data
            /\ growth_file' = r.growth_file
            /\ growth_data' = r.growth_data
            /\ tab1' = r.tab1
            /\ avg_df' = r.avg_df
            /\ sum_df' = r.sum_df
            /\ best_row' = r.best_row
            /\ all_growth' = r.all_growth
            /\ UNCHANGED <<data_dir, target>>

\* The first run: the selectbox shows its first option.
Startup ==
    /\ status = "init"
    /\ Run(ALL_OPTION)

\* The user picks another school in the sidebar: the script runs again.
\* The sidebar exists once a run got past line 104.
Select ==
    /\ status \in {"done", "crashed"}
    /\ \E s \in SelectOptions :
        /\ s # selected_school
        /\ Run(s)

\* The page is reloaded: a new session (the selectbox back on its first
\* option) of the same process (the caches kept).
Reload ==
    /\ status \in {"halted", "done", "crashed"}
    /\ Run(ALL_OPTION)

Next == Startup \/ Select \/ Reload

----------------------------------------------------------------------------
(* Inputs *)

\* The injective sequences over S of length at most n.
SeqsUpTo(S, n) ==
    UNION {{q \in [1..k -> S] : \A i, j \in 1..k : i # j => q[i] # q[j]} :
           k \in 0..n}

\* All sequences over S of length at most n.
AllSeqsUpTo(S, n) == UNION {[1..k -> S] : k \in 0..n}

File(stem, suffix, table, sheets) ==
    [stem |-> stem, suffix |-> suffix, table |-> table, sheets |-> sheets]

ENV_ALL == {"time", "temperature", "humidity", "ph", "ec"}
GROWTH_ALL == {"fresh_weight", "leaf_count", "shoot_length"}

EnvTable(cols, cells) ==
    [columns |-> cols,
     rows |-> [i \in 1..Len(cells) |-> [c \in cols |-> cells[i]]]]

OTHER_SCHOOL == <<LV(5, 1)>>

GrowthTable(cols, weights) ==
    [columns |-> cols,
     rows |-> [i \in 1..Len(weights) |->
                 [c \in cols |-> IF c = "fresh_weight" THEN weights[i]
                                 ELSE IF c = "school" THEN <<OTHER_SCHOOL>>
                                 ELSE <<2>>]]]

EnvTables ==
    {EnvTable(cols, cells) :
        cols \in {ENV_ALL, ENV_ALL \ {"temperature"}, ENV_ALL \ {"time"}},
        cells \in AllSeqsUpTo({<<2>>, <<>>}, MaxRows)}

GrowthTables ==
    {GrowthTable(GROWTH_ALL, ws) : ws \in AllSeqsUpTo({<<0>>, <<3>>}, MaxRows)}
    \cup {GrowthTable(GROWTH_ALL \cup {"school"}, << <<3>> >>),
          GrowthTable(GROWTH_ALL \ {"fresh_weight"}, << <<1>> >>)}

StdEnvTable == EnvTable(ENV_ALL, << <<2>> >>)

Sheet(name, table) == [name |-> name, table |-> table]

StdSheets ==
    << Sheet(SONGDO, GrowthTable(GROWTH_ALL, << <<1>> >>)),
       Sheet(HANEUL, GrowthTable(GROWTH_ALL, << <<3>> >>)) >>

Csv(stem, suffix, table) == File(stem, suffix, table, <<>>)
Xlsx(stem, sheets) == File(stem, ".xlsx", EmptyTable, sheets)

\* The files a directory of the model may hold: the workbook under its NFC
\* and its NFD name, CSV files named in NFC and in NFD, with a lower and an
\* upper case suffix, with and without the suffix literal, and a stray file.
DirFiles ==
    { Xlsx(GROWTH_XLSX.stem, StdSheets),
      Xlsx(Decompose(GROWTH_XLSX.stem), StdSheets),
      Csv(SONGDO \o ENV_SUFFIX, ".csv", StdEnvTable),
      Csv(HANEUL \o ENV_SUFFIX, ".CSV", StdEnvTable),
      Csv(Decompose(SONGDO \o ENV_SUFFIX), ".csv", StdEnvTable),
      Csv(ARA, ".csv", StdEnvTable),
      File(<<A(52)>>, ".txt", EmptyTable, <<>>) }

\* Workbooks: at most MaxSheets sheets with distinct names.
Workbooks ==
    UNION {{[i \in 1..Len(names) |-> Sheet(names[i], tables[i])] :
              tables \in [1..Len(names) -> GrowthTables]} :
           names \in SeqsUpTo({SONGDO, HANEUL, OTHER_SCHOOL}, MaxSheets)}

InitRest ==
    /\ target = GROWTH_XLSX
    /\ cache_env = <<>>
    /\ cache_growth = <<>>
    /\ selected_school = ALL_OPTION
    /\ status = "init"
    /\ err = <<>>
    /\ trace = <<>>
    /\ env_data = <<>>
    /\ growth_file = <<>>
    /\ growth_data = <<>>
    /\ tab1 = <<>>
    /\ avg_df = <<>>
    /\ sum_df = <<>>
    /\ best_row = <<>>
    /\ all_growth = <<>>

\* Any listing of at most MaxDir of the files.
InitDirs == data_dir \in SeqsUpTo(DirFiles, MaxDir)

\* Two CSV files of any content beside the workbook.
InitEnv ==
    \E t1 \in EnvTables, t2 \in EnvTables :
        data_dir = << Csv(SONGDO \o ENV_SUFFIX, ".csv", t1),
                      Csv(HANEUL \o ENV_SUFFIX, ".csv", t2),
                      Xlsx(GROWTH_XLSX.stem, StdSheets) >>

\* Any workbook beside one CSV file.
InitGrowth ==
    \E wb \in Workbooks :
        data_dir = << Xlsx(GROWTH_XLSX.stem, wb),
                      Csv(SONGDO \o ENV_SUFFIX, ".csv", StdEnvTable) >>

Init == (InitDirs \/ InitEnv \/ InitGrowth) /\ InitRest

Spec == Init /\ [][Next]_vars

----------------------------------------------------------------------------
(* find_file_by_normalized_name alone, on any directory and target *)

ResolveNames ==
    { GROWTH_XLSX,
      [stem |-> Decompose(GROWTH_XLSX.stem), suffix |-> ".xlsx"],
      [stem |-> <<A(52), LV(3, 1)>>, suffix |-> ".xlsx"],
      [stem |-> <<A(52), L(3), V(1)>>, suffix |-> ".xlsx"],
      [stem |-> <<L(3), V(2), LV(3, 2)>>, suffix |-> ".xlsx"],
      [stem |-> <<LV(3, 2), L(3), V(2)>>, suffix |-> ".xlsx"],
      [stem |-> GROWTH_XLSX.stem, suffix |-> ".csv"] }

InitResolve ==
    /\ data_dir \in SeqsUpTo({File(n.stem, n.suffix, EmptyTable, <<>>) :
                                 n \in ResolveNames}, MaxDir)
    /\ target \in ResolveNames
    /\ cache_env = <<>>
    /\ cache_growth = <<>>
    /\ selected_school = ALL_OPTION
    /\ status = "init"
    /\ err = <<>>
    /\ trace = <<>>
    /\ env_data = <<>>
    /\ growth_file = <<>>
    /\ growth_data = <<>>
    /\ tab1 = <<>>
    /\ avg_df = <<>>
    /\ sum_df = <<>>
    /\ best_row = <<>>
    /\ all_growth = <<>>

Resolve ==
    /\ status = "init"
    /\ growth_file' = find_file_by_normalized_name(data_dir, target)
    /\ status' = "resolved"
    /\ trace' = <<"find_file">>
    /\ UNCHANGED <<data_dir, target, cache_env, cache_growth, selected_school,
                   err, env_data, growth_data, tab1, avg_df, sum_df, best_row,
                   all_growth>>

NextResolve == Resolve

SpecResolve == InitResolve /\ [][NextResolve]_vars

----------------------------------------------------------------------------
(* Properties *)

Ran == status \in {"halted", "crashed", "done"}

Entered(step) == step \in Range(trace)

\* Some entry of the directory has a name NFC-equal to the target.
NfcEntryExists ==
    \E i \in 1..Len(data_dir) :
        normalize_name(FileName(data_dir[i])) = normalize_name(target)

\* C1: a run halts with the error, before load_growth_data, the sidebar,
\* the tabs and the downloads, exactly when no directory entry has a name
\* NFC-equal to the workbook name; when such an entry exists the run never
\* takes the halt path.
C1_StartupHalt ==
    Ran =>
        /\ ~NfcEntryExists =>
              /\ status = "halted"
              /\ trace = <<"load_environment_data", "find_file", "st.error",
                           "st.stop">>
              /\ growth_data = <<>> /\ tab1 = <<>> /\ avg_df = <<>>
              /\ sum_df = <<>> /\ best_row = <<>> /\ all_growth = <<>>
        /\ NfcEntryExists =>
              /\ status # "halted"
              /\ ~Entered("st.error") /\ ~Entered("st.stop")
              /\ Entered("load_growth_data") /\ Entered("sidebar")

\* A run that halted on a directory that holds files, none of them the
\* workbook.
C1_Witness ==
    /\ status = "halted"
    /\ Len(data_dir) >= 2
    /\ env_data # <<>> /\ env_data[1] # <<>>

\* C2: find_file_by_normalized_name returns an entry whenever the directory
\* holds a name canonically equivalent to the target (in NFC or NFD form),
\* returns None only when there is none, and what it returns is an entry
\* of the directory whose name is canonically equivalent to the target.
C2_ResolveFile ==
    status = "resolved" =>
        /\ (\E i \in 1..Len(data_dir) :
               CanonEquiv(FileName(data_dir[i]), target))
             <=> growth_file # <<>>
        /\ growth_file # <<>> =>
              /\ growth_file[1] \in Range(data_dir)
              /\ CanonEquiv(FileName(growth_file[1]), target)

\* A file was found whose on-disk name is in another normalization form
\* than the target.
C2_Witness ==
    /\ status = "resolved"
    /\ growth_file # <<>>
    /\ FileName(growth_file[1]) # target
    /\ FileName(growth_file[1]) # normalize_name(target)

\* The position of a group in the static configuration (0: not configured).
CanonicalIndex(school) ==
    IF HasKey(EC_INFO, school) THEN KeyIndex(EC_INFO, school) ELSE 0

InCanonicalOrder(rows) ==
    \A i, j \in 1..Len(rows) :
        (/\ i < j
         /\ CanonicalIndex(rows[i].school) # 0
         /\ CanonicalIndex(rows[j].school) # 0)
        => CanonicalIndex(rows[i].school) < CanonicalIndex(rows[j].school)

\* C3: the per-group summary rows (avg_df, sum_df) are in the declaration
\* order of EC_INFO, whatever the order of the directory listing and of the
\* sheets.
C3_CanonicalOrder ==
    /\ avg_df # <<>> => InCanonicalOrder(avg_df[1])
    /\ sum_df # <<>> => InCanonicalOrder(sum_df[1])

\* C4: best_row holds the maximum mean fresh weight of sum_df, and among
\* the groups that share the maximum it is the first in the declaration
\* order of EC_INFO.
C4_BestGroup ==
    best_row # <<>> =>
        \A i \in 1..Len(sum_df[1]) :
            LET r == sum_df[1][i]
                b == best_row[1]
            IN  ~IsNaN(r.mean_weight) =>
                  /\ ~Greater(r.mean_weight, b.mean_weight)
                  /\ (/\ ~Greater(b.mean_weight, r.mean_weight)
                      /\ CanonicalIndex(r.school) # 0
                      /\ CanonicalIndex(b.school) # 0)
                     => CanonicalIndex(b.school) <= CanonicalIndex(r.school)

\* C5: a group of a loaded dataset without an entry in EC_INFO is never
\* carried into a summary row with a None treatment value.
C5_NoMissingTreatment ==
    /\ avg_df # <<>> =>
          \A i \in 1..Len(avg_df[1]) : avg_df[1][i].target_ec # <<>>
    /\ sum_df # <<>> =>
          \A i \in 1..Len(sum_df[1]) : sum_df[1][i].EC # <<>>

C7_OverallMean ==
    Entered("tab1") =>
        /\ tab1 # <<>>
        /\ LET with == ItemsWith(env_data[1], "temperature") IN
           IF with = <<>> THEN tab1[1].temp_text.nan
           ELSE tab1[1].avg_temp =
                    Mean(Flatten([i \in 1..Len(with) |->
                                     Column(with[i].val, "temperature")]))

\* C8: a table that lacks a column the summary reads gives a NaN mean for
\* that group and column, and the run goes on: the summary is built.
C8_MissingColumn ==
    /\ Entered("tab2") =>
          \A i \in 1..Len(env_data[1]) :
              "temperature" \notin env_data[1][i].val.columns =>
                  /\ avg_df # <<>>
                  /\ IsNaN(avg_df[1][i].temperature)
    /\ Entered("tab3") =>
          \A i \in 1..Len(growth_data[1]) :
              "fresh_weight" \notin growth_data[1][i].val.columns =>
                  /\ sum_df # <<>>
                  /\ IsNaN(sum_df[1][i].mean_weight)

\* The number of rows of the first n tables of a mapping.
RowsBefore(d, n) == TotalRows(SubSeq(d, 1, n))

\* C9: the merged growth table has as many rows as the growth tables
\* together, and its rows are the source rows in order, each with its
\* group's id in the label column, also when the source table has a column
\* of that name.
C9_MergeWithLabel ==
    all_growth # <<>> =>
        LET src == load_growth_data(growth_file[1])
            merged == all_growth[1]
        IN  /\ Len(merged.rows) = TotalRows(src)
            /\ \A i \in 1..Len(src) :
                   \A j \in 1..Len(src[i].val.rows) :
                       LET row == merged.rows[RowsBefore(src, i - 1) + j] IN
                       /\ row["school"] = <<src[i].key>>
                       /\ \A c \in src[i].val.columns \ {"school"} :
                              row[c] = src[i].val.rows[j][c]

\* A merged table of two sheets with rows, one of them with a label column
\* of its own that names another group.
C9_Witness ==
    /\ all_growth # <<>>
    /\ Len(growth_data[1]) >= 2
    /\ \A i \in 1..Len(growth_data[1]) : Len(growth_data[1][i].val.rows) >= 1
    /\ \E i \in 1..Len(growth_data[1]) :
           /\ "school" \in growth_data[1][i].val.columns
           /\ growth_data[1][i].val.rows[1]["school"]
                  # <<growth_data[1][i].key>>

\* C10: after any run and any sequence of selections and reloads, env_data
\* and growth_data are the mappings as loaded from the directory and the
\* workbook: same keys, same columns, same rows.
C10_DatasetsUnchanged ==
    Ran =>
        /\ env_data = <<load_environment_data(data_dir)>>
        /\ growth_file # <<>> =>
               growth_data = <<load_growth_data(growth_file[1])>>

\* A complete run after a selection, with the merged table built from at
\* least one sheet with rows.
C10_Witness ==
    /\ status = "done"
    /\ selected_school # ALL_OPTION
    /\ all_growth # <<>> /\ Len(all_growth[1].rows) >= 1
    /\ "school" \notin growth_data[1][1].val.columns

====
